---- MODULE Spec2Model ----
(***************************************************************************)
(* Body-language analysis backend: the session store and the three request *)
(* handlers of src/backend/body_language_api.py, with the detector of      *)
(* src/backend/body_language_detector.py reduced to what process_frame     *)
(* returns to the handler.                                                 *)
(*                                                                         *)
(* In Spec every handler runs to completion as one step (requests are      *)
(* served one at a time).  Floats are modelled as exact rationals.         *)
(***************************************************************************)
EXTENDS Integers, Sequences, FiniteSets, TLC

VARIABLES
    sessions,        \* the module-level dict: session key -> session data
    detector_model,  \* detector.model: "loaded" or "None", fixed at startup
    now,             \* the wall clock time.time(), in ticks
    last,            \* the last HTTP response: [status, body]
    holistic_results,  \* results of holistic.process for the frame at hand
    extracted,       \* what _extract_landmarks returned for those results
    threads,         \* the request handlers running concurrently
    orphans          \* session objects removed from sessions, still referenced

vars ==
    <<sessions, detector_model, now, last, holistic_results, extracted,
      threads, orphans>>

----------------------------------------------------------------------------
(* Bounds of the model *)

MaxTime == 2          \* the clock stops advancing at this tick
MaxFrames == 2        \* frames recorded over all stored sessions
TicksPerSecond == 2   \* clock resolution: ticks in one second
MaxScored == 4        \* frames of the session SpecScore starts with
MaxCounted == 20      \* frames of the session SpecCounts starts with
MaxSeed == 6          \* landmark lists the engine returns: seeds 0 .. MaxSeed
NumThreads == 2       \* requests served concurrently in SpecThreads

----------------------------------------------------------------------------
(* Exact rationals [n, d] in lowest terms with d > 0, standing for floats *)

Abs(i) == IF i < 0 THEN -i ELSE i

RECURSIVE GCD(_, _)
GCD(a, b) == IF b = 0 THEN a ELSE GCD(b, a % b)

Frac(a, b) ==
    LET g == GCD(Abs(a), Abs(b))
        s == IF b < 0 THEN -1 ELSE 1
    IN  [n |-> (s * a) \div g, d |-> (s * b) \div g]

RInt(i) == [n |-> i, d |-> 1]
RAdd(p, q) == Frac(p.n * q.d + q.n * p.d, p.d * q.d)
RSub(p, q) == Frac(p.n * q.d - q.n * p.d, p.d * q.d)
RDivInt(p, k) == Frac(p.n, p.d * k)
RLeq(p, q) == p.n * q.d <= q.n * p.d
RLess(p, q) == p.n * q.d < q.n * p.d
RMin(p, q) == IF RLeq(p, q) THEN p ELSE q
RMax(p, q) == IF RLeq(p, q) THEN q ELSE p

----------------------------------------------------------------------------
(* Values *)

None == [none |-> TRUE]

\* the classes the classifier is trained on
gesture_classes ==
    {"Victorious", "Thumbs Up", "Open Palm", "Pointing", "Crossed Arms"}

Confidences == {90}   \* predict_proba of the predicted class, in percent

\* session ids the clock can produce: int(time.time())
SessionIds == 0 .. (MaxTime \div TicksPerSecond)

\* a session id as a client sends it: the same digits as a JSON string or
\* as a JSON number
ReqIds == [repr : {"str", "int"}, val : SessionIds]

\* str(x): the string of digits, as a key of the sessions dict
Str(x) == [repr |-> "str", val |-> x.val]

\* Python truthiness of a session id: a non-empty string or a non-zero
\* number; None (the key is absent) and the number 0 are falsy
Truthy(x) == x # None /\ (x.repr = "str" \/ x.val # 0)

----------------------------------------------------------------------------
(* The detector: body_language_detector.py *)

\* list(self.model.classes_): the label set of the loaded classifier
classes_ == gesture_classes

\* What one camera frame makes the external engines do:
\*   pose_landmarks  results.pose_landmarks is set (a person is in the frame)
\*   predict         the label model.predict returns, or "raise"
\*   proba           the probability predict_proba gives that label
\*   fault           "process": holistic.process raises;
\*                   "encode": cv2.imencode raises; "none"
PredictOutcomes == gesture_classes \cup {"Unlisted", "raise"}

Frames ==
    {f \in [pose_landmarks : BOOLEAN, predict : PredictOutcomes,
            proba : Confidences, fault : {"none", "process", "encode"}] :
        /\ (f.fault = "process") => (~f.pose_landmarks)
        /\ (~f.pose_landmarks) => (f.predict = "raise")}

\* The landmark lists of MediaPipe Holistic: 33 pose points and, with
\* refine_face_landmarks left off, 468 face points
PoseLandmarks == 33
FaceLandmarks == 468

\* One landmark of the engine; face landmarks carry a visibility field too
Landmark(i, seed) ==
    [x |-> i % (seed + 2), y |-> seed, z |-> (i + seed) % 3,
     visibility |-> 1 + (i % 2)]

LandmarkList(n, seed) == [i \in 1 .. n |-> Landmark(i, seed)]

\* results of holistic.process: each list is None when nothing was
\* detected (seed Undetected), else the list of the seed
Undetected == -1

Seeds == {Undetected} \cup (0 .. MaxSeed)

HolisticResults(pose_seed, face_seed) ==
    [pose_landmarks |-> IF pose_seed = Undetected THEN None
                        ELSE LandmarkList(PoseLandmarks, pose_seed),
     face_landmarks |-> IF face_seed = Undetected THEN None
                        ELSE LandmarkList(FaceLandmarks, face_seed)]

\* np.array(rows).flatten().tolist() of rows of four numbers
Flatten(rows) ==
    [k \in 1 .. 4 * Len(rows) |->
        rows[((k - 1) \div 4) + 1][((k - 1) % 4) + 1]]

\* variant: the zero fill has as many rows as there are pose landmarks
_extract_landmarks_pose_sized_fill(results) ==
    IF results.pose_landmarks # None
    THEN LET pose ==
                 [i \in 1 .. Len(results.pose_landmarks) |->
                     LET landmark == results.pose_landmarks[i]
                     IN  <<landmark.x, landmark.y, landmark.z,
                           landmark.visibility>>]
             face ==
                 IF results.face_landmarks # None
                 THEN [i \in 1 .. Len(results.face_landmarks) |->
                          LET landmark == results.face_landmarks[i]
                          IN  <<landmark.x, landmark.y, landmark.z, 0>>]
                 ELSE [i \in 1 .. PoseLandmarks |-> <<0, 0, 0, 0>>]
         IN  Flatten(pose \o face)
    ELSE None

\* _extract_landmarks: None without pose landmarks, else the flattened
\* rows [x, y, z, visibility] of the pose followed by the rows [x, y, z, 0]
\* of the face, or by 468 rows of zeros when no face was detected
_extract_landmarks(results) ==
    IF results.pose_landmarks # None
    THEN LET pose ==
                 [i \in 1 .. Len(results.pose_landmarks) |->
                     LET landmark == results.pose_landmarks[i]
                     IN  <<landmark.x, landmark.y, landmark.z,
                           landmark.visibility>>]
             face ==
                 IF results.face_landmarks # None
                 THEN [i \in 1 .. Len(results.face_landmarks) |->
                          LET landmark == results.face_landmarks[i]
                          IN  <<landmark.x, landmark.y, landmark.z, 0>>]
                 ELSE [i \in 1 .. FaceLandmarks |-> <<0, 0, 0, 0>>]
         IN  Flatten(pose \o face)
    ELSE None

\* holistic.process for a frame of the request model: a person whose face
\* was not detected, or nobody
PersonResults == HolisticResults(0, Undetected)

NobodyResults == HolisticResults(Undetected, Undetected)

\* self._extract_landmarks(results) for those results
PersonFeatures == _extract_landmarks(PersonResults)

NobodyFeatures == _extract_landmarks(NobodyResults)

\* variant: the predicted label is not looked up in classes_
process_frame_trusting_label(model, frame) ==
    IF frame.pose_landmarks /\ model # "None" /\ frame.predict # "raise"
    THEN [class |-> frame.predict, confidence |-> frame.proba]
    ELSE None

\* process_frame: the prediction of the pair (annotated_image, prediction)
process_frame(model, frame) ==
    IF frame.pose_landmarks
    THEN LET pose == IF frame.pose_landmarks
                     THEN PersonFeatures ELSE NobodyFeatures
         IN  IF model # "None" /\ pose # None
             THEN IF frame.predict = "raise" \/ frame.predict \notin classes_
                  THEN None    \* except Exception: prediction = None
                  ELSE [class |-> frame.predict, confidence |-> frame.proba]
             ELSE None
    ELSE None

----------------------------------------------------------------------------
(* Requests *)

\* image_data of an analyze-frame request
ImageKinds == {"missing", "no_comma", "bad_base64", "not_image", "valid"}

NoFrame ==
    [pose_landmarks |-> FALSE, predict |-> "raise",
     proba |-> CHOOSE c \in Confidences : TRUE, fault |-> "none"]

\* request.json of analyze-frame: it raises (body is not JSON), it is empty,
\* or it carries session_id (maybe absent) and image_data (maybe absent)
AnalyzeRequests ==
    {r \in [data : {"raises", "empty", "json"},
            session_id : ReqIds \cup {None},
            image_data : ImageKinds,
            frame : Frames] :
        /\ (r.data # "json") =>
              (r.session_id = None /\ r.image_data = "missing")
        /\ (r.session_id = None) =>
              (r.image_data \in {"missing", "valid"} /\ r.frame = NoFrame)
        /\ (r.image_data # "valid") => (r.frame = NoFrame)}

StopRequests ==
    {r \in [data : {"raises", "empty", "json"},
            session_id : ReqIds \cup {None}] :
        (r.data # "json") => (r.session_id = None)}

\* an analyze-frame or stop-session request that names a session id
Names(r) == r.data = "json" /\ Truthy(r.session_id)

\* the key of the sessions dict the request's session id stands for
KeyOf(r) == Str(r.session_id)

----------------------------------------------------------------------------
(* The session store: body_language_api.py *)

EmptyDict == [k \in {} |-> 0]

\* sessions[session_id] = {...}
new_session(start_time) ==
    [start_time |-> start_time, frames_processed |-> 0, detections |-> <<>>]

put_session(store, key, data) ==
    [k \in (DOMAIN store) \cup {key} |-> IF k = key THEN data ELSE store[k]]

\* variant: the clean-up is missing
del_session_kept(store, key) == store

\* del sessions[session_id]
del_session(store, key) ==
    [k \in (DOMAIN store) \ {key} |-> store[k]]

\* matching_sessions = [sid for sid in sessions.keys() if str(sid) == str(session_id)]
matching_sessions(store, session_id) ==
    {sid \in DOMAIN store : Str(sid) = Str(session_id)}

\* the session_id the handler goes on with after the tolerant lookup
lookup(store, session_id) ==
    IF matching_sessions(store, session_id) # {}
    THEN CHOOSE sid \in matching_sessions(store, session_id) : TRUE
    ELSE session_id

\* variant: the frame is counted only when it carries a prediction
update_session_counting_predictions(data, prediction) ==
    [data EXCEPT !.detections = Append(@, prediction),
                 !.frames_processed =
                     IF prediction = None THEN @ ELSE @ + 1]

\* variant: the counter statement is missing
update_session_append_only(data, prediction) ==
    [data EXCEPT !.detections = Append(@, prediction)]

\* the two statements that update the session for one analysed frame
update_session(data, prediction) ==
    [data EXCEPT !.detections = Append(@, prediction),
                 !.frames_processed = @ + 1]

RECURSIVE SumFrames(_, _)
SumFrames(store, keys) ==
    IF keys = {} THEN 0
    ELSE LET k == CHOOSE x \in keys : TRUE
         IN  store[k].frames_processed + SumFrames(store, keys \ {k})

TotalFrames(store) == SumFrames(store, DOMAIN store)

----------------------------------------------------------------------------
(* Scoring: the body of stop_session and generate_feedback *)

\* detection['class'] raises TypeError when detection is None
HasNone(detections) ==
    \E i \in 1 .. Len(detections) : detections[i] = None

\* variant: a label is entered once and never counted up
gesture_counts_entered_once(detections) ==
    [g \in {detections[i].class : i \in 1 .. Len(detections)} |-> 1]

\* gesture_counts: tally of the detections by class (no None among them)
gesture_counts(detections) ==
    LET seen == {detections[i].class : i \in 1 .. Len(detections)}
    IN  [g \in seen |->
            Cardinality({i \in 1 .. Len(detections) : detections[i].class = g})]

\* variant: the percentage is taken over the number of distinct labels
gesture_percentages_over_labels(counts, total_frames) ==
    [g \in DOMAIN counts |->
        [gesture_name |-> g,
         gesture_count |-> counts[g],
         gesture_percentage |->
             Frac(counts[g] * 100, Cardinality(DOMAIN counts))]]

\* gesture_percentages: count / total_frames * 100 for every counted label
gesture_percentages(counts, total_frames) ==
    [g \in DOMAIN counts |->
        [gesture_name |-> g,
         gesture_count |-> counts[g],
         gesture_percentage |-> Frac(counts[g] * 100, total_frames)]]

\* percentages.get(name, {'gesture_name': name, 'gesture_count': 0, ...})
get_gesture(percentages, name) ==
    IF name \in DOMAIN percentages
    THEN percentages[name]
    ELSE [gesture_name |-> name, gesture_count |-> 0,
          gesture_percentage |-> RInt(0)]

AllowedNames == {"Open Palm", "Thumbs Up", "Pointing"}
DisallowedNames == {"Crossed Arms", "Victorious"}

\* variant: the bucket holds only the labels that were observed
allowed_gestures_observed_only(percentages) ==
    [name \in AllowedNames \cap DOMAIN percentages |-> percentages[name]]

allowed_gestures(percentages) ==
    [name \in AllowedNames |-> get_gesture(percentages, name)]

disallowed_gestures(percentages) ==
    [name \in DisallowedNames |-> get_gesture(percentages, name)]

\* sum([g['gesture_percentage'] for g in bucket.values()])
RECURSIVE SumPercentages(_, _)
SumPercentages(bucket, names) ==
    IF names = {} THEN RInt(0)
    ELSE LET name == CHOOSE x \in names : TRUE
         IN  RAdd(bucket[name].gesture_percentage,
                  SumPercentages(bucket, names \ {name}))

\* variant: the guard on total_frames is missing
overall_score_unguarded(total_frames, allowed, disallowed) ==
    RMin(RInt(100),
         RMax(RInt(0),
              RAdd(RInt(50),
                   RDivInt(RSub(SumPercentages(allowed, DOMAIN allowed),
                                SumPercentages(disallowed,
                                               DOMAIN disallowed)), 2))))

\* variant: the difference is not halved
overall_score_unhalved(total_frames, allowed, disallowed) ==
    IF total_frames > 0
    THEN RMin(RInt(100),
              RMax(RInt(0),
                   RAdd(RInt(50),
                        RSub(SumPercentages(allowed, DOMAIN allowed),
                             SumPercentages(disallowed,
                                            DOMAIN disallowed)))))
    ELSE RInt(0)

\* overall_score = min(100, max(0, 50 + (allowed - disallowed) / 2)),
\* or 0 without frames
overall_score(total_frames, allowed, disallowed) ==
    IF total_frames > 0
    THEN LET allowed_percentage == SumPercentages(allowed, DOMAIN allowed)
             disallowed_percentage ==
                 SumPercentages(disallowed, DOMAIN disallowed)
         IN  RMin(RInt(100),
                  RMax(RInt(0),
                       RAdd(RInt(50),
                            RDivInt(RSub(allowed_percentage,
                                         disallowed_percentage), 2))))
    ELSE RInt(0)

\* thresholds of generate_feedback, in percent
OpenPalmThreshold == 20
ThumbsUpThreshold == 10
PointingThreshold == 10
CrossedArmsThreshold == 15
VictoriousThreshold == 15

\* variant: a percentage equal to the threshold passes
Exceeds_or_equals(percentages, name, threshold) ==
    /\ name \in DOMAIN percentages
    /\ RLeq(RInt(threshold), percentages[name].gesture_percentage)

\* 'name' in gesture_percentages and its gesture_percentage > threshold
Exceeds(percentages, name, threshold) ==
    /\ name \in DOMAIN percentages
    /\ RLess(RInt(threshold), percentages[name].gesture_percentage)

\* generate_feedback: the text as the sequence of its lines
generate_feedback(percentages) ==
    <<"Based on your body language analysis:">>
    \o (IF Exceeds(percentages, "Open Palm", OpenPalmThreshold)
        THEN <<"+ open palm gestures convey openness">>
        ELSE <<"- use more open palm gestures">>)
    \o (IF Exceeds(percentages, "Thumbs Up", ThumbsUpThreshold)
        THEN <<"+ thumbs up reinforce key points">>
        ELSE <<>>)
    \o (IF Exceeds(percentages, "Pointing", PointingThreshold)
        THEN <<"+ pointing gestures direct attention">>
        ELSE <<>>)
    \o (IF Exceeds(percentages, "Crossed Arms", CrossedArmsThreshold)
        THEN <<"- reduce crossed arms posture">>
        ELSE <<"+ maintained an open posture">>)
    \o (IF Exceeds(percentages, "Victorious", VictoriousThreshold)
        THEN <<"- limit victory signs">>
        ELSE <<>>)
    \o <<"General recommendations:",
         "* Maintain balanced posture and avoid slouching",
         "* Use purposeful hand movements to emphasize points",
         "* Keep steady eye contact with your audience",
         "* Vary your gestures to maintain audience engagement">>

----------------------------------------------------------------------------
(* The handlers.  Each yields the response and the store it leaves. *)

Response(op, status, body) == [op |-> op, status |-> status, body |-> body]

Outcome(response, store) == [response |-> response, sessions |-> store]

\* the body analyze_frame answers with from its except clauses and for an
\* unknown session
frame_error(error) ==
    Response("analyze", 200,
             [processed_image |-> "", prediction |-> None, error |-> error])

\* variant: an unknown session is answered with 404
frame_session_not_found_404 ==
    Response("analyze", 404,
             [processed_image |-> "", prediction |-> None,
              error |-> "Session not found or expired"])

\* lines 57-61: the session is not in the store
frame_session_not_found == frame_error("Session not found or expired")

\* lines 63-96: the inner try block, session_id being a key of the store
analyze_image(store, model, session_id, r) ==
    CASE r.image_data \in {"no_comma", "bad_base64"} ->
            Outcome(frame_error("Error processing frame"), store)
      [] r.image_data = "not_image" ->
            Outcome(Response("analyze", 400,
                             [error |-> "Invalid image data"]), store)
      [] OTHER ->
            IF r.frame.fault = "process"
            THEN Outcome(frame_error("Error processing frame"), store)
            ELSE LET prediction == process_frame(model, r.frame)
                     updated ==
                         IF session_id \in DOMAIN store
                         THEN put_session(store, session_id,
                                  update_session(store[session_id],
                                                 prediction))
                         ELSE store
                 IN  IF r.frame.fault = "encode"
                     THEN Outcome(frame_error("Error processing frame"),
                                  updated)
                     ELSE Outcome(
                              Response("analyze", 200,
                                  [processed_image |->
                                       "data:image/jpeg;base64",
                                   prediction |-> prediction]),
                              updated)

analyze_frame(store, model, r) ==
    CASE r.data = "raises" ->
            Outcome(frame_error("exception"), store)
      [] r.data = "empty" ->
            Outcome(Response("analyze", 400,
                             [error |-> "No data provided"]), store)
      [] r.data = "json" /\ ~Truthy(r.session_id) ->
            Outcome(Response("analyze", 400,
                             [error |-> "Missing session_id"]), store)
      [] r.data = "json" /\ Truthy(r.session_id)
            /\ r.image_data = "missing" ->
            Outcome(Response("analyze", 400,
                             [error |-> "Missing image_data"]), store)
      [] OTHER ->
            LET session_id == lookup(store, r.session_id)
            IN  IF session_id \notin DOMAIN store
                THEN Outcome(frame_session_not_found, store)
                ELSE analyze_image(store, model, session_id, r)

\* variant: an unknown session is answered with 404
session_not_found_report_404(session_id) ==
    Response("stop", 404, [error |-> "Session ID not found"])

\* lines 131-140: the report for a session id that is not in the store
session_not_found_report(session_id) ==
    Response("stop", 200,
             [error |-> "Session ID not found",
              metrics |-> EmptyDict,
              session_id |-> session_id,
              duration |-> RInt(0),
              frames_processed |-> 0,
              gesture_percentages |-> EmptyDict,
              feedback |-> <<"No session data available">>,
              overall_score |-> RInt(0)])

\* variant: a session already stored under the id is left as it is
start_session_keeping_stored(store, id_time, start_time) ==
    LET session_id == [repr |-> "str", val |-> id_time \div TicksPerSecond]
    IN  Outcome(Response("start", 200,
                    [session_id |-> session_id,
                     message |-> "Session started successfully"]),
                IF session_id \in DOMAIN store
                THEN store
                ELSE put_session(store, session_id,
                                 new_session(start_time)))

\* start_session, lines 17-30: id_time and start_time are the two readings
\* of time.time(), the id is str(int(id_time))
start_session(store, id_time, start_time) ==
    LET session_id == [repr |-> "str", val |-> id_time \div TicksPerSecond]
    IN  Outcome(Response("start", 200,
                    [session_id |-> session_id,
                     message |-> "Session started successfully"]),
                put_session(store, session_id, new_session(start_time)))

\* lines 142-205: the report of a stored session, end_time being the clock
session_report(store, session_id, end_time) ==
    LET session_data == store[session_id]
        duration ==
            Frac(end_time - session_data.start_time, TicksPerSecond)
        total_frames == session_data.frames_processed
        percentages ==
            IF total_frames > 0
            THEN gesture_percentages(
                     gesture_counts(session_data.detections), total_frames)
            ELSE EmptyDict
        allowed == allowed_gestures(percentages)
        disallowed == disallowed_gestures(percentages)
    IN  Response("stop", 200,
             [session_id |-> session_id,
              duration |-> duration,
              frames_processed |-> total_frames,
              gesture_percentages |-> percentages,
              allowed_gestures |-> allowed,
              disallowed_gestures |-> disallowed,
              feedback |-> generate_feedback(percentages),
              overall_score |->
                  overall_score(total_frames, allowed, disallowed)])

stop_session(store, end_time, r) ==
    CASE r.data = "raises" ->
            Outcome(Response("stop", 500, [error |-> "exception"]), store)
      [] r.data = "empty" ->
            Outcome(Response("stop", 200,
                             [error |-> "No data provided",
                              metrics |-> EmptyDict]), store)
      [] r.data = "json" /\ ~Truthy(r.session_id) ->
            Outcome(Response("stop", 200,
                             [error |-> "Missing session_id",
                              metrics |-> EmptyDict]), store)
      [] OTHER ->
            LET session_id == lookup(store, r.session_id)
            IN  IF session_id \notin DOMAIN store
                THEN Outcome(session_not_found_report(session_id), store)
                ELSE IF /\ store[session_id].frames_processed > 0
                        /\ HasNone(store[session_id].detections)
                     THEN \* detection['class'] on None: TypeError, caught
                          \* by the outer except before the del
                          Outcome(Response("stop", 500,
                                           [error |-> "exception"]), store)
                     ELSE Outcome(session_report(store, session_id, end_time),
                                  del_session(store, session_id))

----------------------------------------------------------------------------
(* The state machine *)

\* no landmarks have been extracted yet
NotExtracted == [pending |-> TRUE]

\* a handler thread: where it is in its handler (pc), the session_id it
\* goes on with (key), and the locals prediction, the value read for
\* frames_processed += 1 (tmp), total_frames, the detections it iterated
\* over, whether it stored frames_processed (updated), and its response
Threads == 1 .. NumThreads

IdleThread ==
    [pc |-> "idle", op |-> "none", key |-> None, prediction |-> None,
     tmp |-> 0, total_frames |-> 0, detections |-> <<>>,
     updated |-> FALSE, response |-> Response("none", 0, EmptyDict)]

NoThreads == [t \in Threads |-> IdleThread]

Init ==
    /\ sessions = EmptyDict
    /\ detector_model \in {"loaded", "None"}
    /\ now = 0
    /\ last = Response("none", 0, EmptyDict)
    /\ holistic_results = NobodyResults
    /\ extracted = NotExtracted
    /\ threads = NoThreads
    /\ orphans = EmptyDict

\* time passes
Tick ==
    /\ now < MaxTime
    /\ now' = now + 1
    /\ UNCHANGED <<sessions, detector_model, last, holistic_results, extracted,
                   threads, orphans>>

\* POST /api/body-language/start-session; the clock is read twice, for the
\* id and for start_time
StartSession ==
    \E start_time \in {now, now + 1} :
        /\ start_time <= MaxTime
        /\ LET out == start_session(sessions, now, start_time)
           IN  /\ sessions' = out.sessions
               /\ last' = out.response
        /\ now' = start_time
        /\ UNCHANGED <<detector_model, holistic_results, extracted,
                       threads, orphans>>

\* what analyze-frame / stop-session do with request r in the current state
AnalyzeOutcome(r) == analyze_frame(sessions, detector_model, r)

StopOutcome(r) == stop_session(sessions, now, r)

\* POST /api/body-language/analyze-frame
AnalyzeFrame(r) ==
    LET out == AnalyzeOutcome(r)
    IN  /\ TotalFrames(out.sessions) <= MaxFrames
        /\ sessions' = out.sessions
        /\ last' = out.response
        /\ UNCHANGED <<detector_model, now, holistic_results, extracted,
                       threads, orphans>>

\* POST /api/body-language/stop-session
StopSession(r) ==
    LET out == StopOutcome(r)
    IN  /\ sessions' = out.sessions
        /\ last' = out.response
        /\ UNCHANGED <<detector_model, now, holistic_results, extracted,
                       threads, orphans>>

Next ==
    \/ Tick
    \/ StartSession
    \/ \E r \in AnalyzeRequests : AnalyzeFrame(r)
    \/ \E r \in StopRequests : StopSession(r)

Spec == Init /\ [][Next]_vars

----------------------------------------------------------------------------
(* Scoring on its own: the store holds one session that start-session and
   MaxScored or fewer analyze-frame calls, served one at a time, have left
   (every processed frame appended its prediction or None and was counted),
   and stop-session requests are served. *)

ScoredDetections ==
    UNION {[1 .. n -> {None} \cup [class : gesture_classes,
                                   confidence : Confidences]] :
              n \in 0 .. MaxScored}

ScoreInit ==
    /\ \E detections \in ScoredDetections :
          sessions =
              put_session(EmptyDict, [repr |-> "str", val |-> 0],
                          [start_time |-> 0,
                           frames_processed |-> Len(detections),
                           detections |-> detections])
    /\ detector_model \in {"loaded", "None"}
    /\ now = 0
    /\ last = Response("start", 200,
                  [session_id |-> [repr |-> "str", val |-> 0],
                   message |-> "Session started successfully"])
    /\ holistic_results = NobodyResults
    /\ extracted = NotExtracted
    /\ threads = NoThreads
    /\ orphans = EmptyDict

ScoreNext ==
    \/ Tick
    \/ \E r \in StopRequests : StopSession(r)

SpecScore == ScoreInit /\ [][ScoreNext]_vars

----------------------------------------------------------------------------
(* Scoring of longer sessions: the store holds one session of MaxCounted or
   fewer frames, every one of them classified, given by how often each class
   was predicted; the stop-session requests for that session are served. *)

RECURSIVE Repeat(_, _)
Repeat(x, n) == IF n = 0 THEN <<>> ELSE <<x>> \o Repeat(x, n - 1)

\* the detections of a session in which class g was predicted counts[g] times
CountedDetections(palm, thumbs, pointing, crossed, victorious) ==
    LET P(g) == [class |-> g, confidence |-> CHOOSE c \in Confidences : TRUE]
    IN  Repeat(P("Open Palm"), palm) \o Repeat(P("Thumbs Up"), thumbs)
        \o Repeat(P("Pointing"), pointing)
        \o Repeat(P("Crossed Arms"), crossed)
        \o Repeat(P("Victorious"), victorious)

CountsInit ==
    /\ \E palm \in 0 .. MaxCounted :
       \E thumbs \in 0 .. (MaxCounted - palm) :
       \E pointing \in 0 .. (MaxCounted - palm - thumbs) :
       \E crossed \in 0 .. (MaxCounted - palm - thumbs - pointing) :
       \E victorious \in
              0 .. (MaxCounted - palm - thumbs - pointing - crossed) :
          LET detections ==
                  CountedDetections(palm, thumbs, pointing, crossed,
                                    victorious)
          IN  sessions =
                  put_session(EmptyDict, [repr |-> "str", val |-> 0],
                              [start_time |-> 0,
                               frames_processed |-> Len(detections),
                               detections |-> detections])
    /\ detector_model = "loaded"
    /\ now = 0
    /\ last = Response("start", 200,
                  [session_id |-> [repr |-> "str", val |-> 0],
                   message |-> "Session started successfully"])
    /\ holistic_results = NobodyResults
    /\ extracted = NotExtracted
    /\ threads = NoThreads
    /\ orphans = EmptyDict

CountsNext ==
    \E r \in StopRequests :
        /\ Names(r)
        /\ KeyOf(r) \in DOMAIN sessions
        /\ StopSession(r)

SpecCounts == CountsInit /\ [][CountsNext]_vars

----------------------------------------------------------------------------
(* Feature extraction on its own: holistic.process has returned some
   results, and _extract_landmarks is applied to them. *)

LandmarksInit ==
    /\ sessions = EmptyDict
    /\ detector_model = "loaded"
    /\ now = 0
    /\ last = Response("none", 0, EmptyDict)
    /\ \E pose_seed \in Seeds, face_seed \in Seeds :
          holistic_results = HolisticResults(pose_seed, face_seed)
    /\ extracted = NotExtracted
    /\ threads = NoThreads
    /\ orphans = EmptyDict

ExtractLandmarks ==
    /\ extracted = NotExtracted
    /\ extracted' = _extract_landmarks(holistic_results)
    /\ UNCHANGED <<sessions, detector_model, now, last, holistic_results,
                   threads, orphans>>

LandmarksNext == ExtractLandmarks

SpecLandmarks == LandmarksInit /\ [][LandmarksNext]_vars

----------------------------------------------------------------------------
(* The handlers as the threaded server runs them: each request has its own
   thread, nothing locks the sessions dict, and a thread can be preempted
   between any two accesses of the dict or of a session object.  A step is
   one such access together with the local computation that follows it.
   The store holds one session that start-session and analyze-frame calls
   served one at a time have left; every thread serves one request naming
   that session. *)

\* the session object a handler reached through sessions[key]: it is still
\* in the dict, or del sessions[key] has removed it since
session_object(store, removed, key) ==
    IF key \in DOMAIN store THEN store[key] ELSE removed[key]

\* variant: the object is stored under its key again
write_object_reinserting(store, removed, key, data) ==
    [sessions |-> put_session(store, key, data), orphans |-> removed]

\* a store into a field of that object changes the object, wherever it is
write_object(store, removed, key, data) ==
    IF key \in DOMAIN store
    THEN [sessions |-> put_session(store, key, data), orphans |-> removed]
    ELSE [sessions |-> store, orphans |-> put_session(removed, key, data)]

\* variant: the counter is incremented in one indivisible step
incremented_atomically(tmp, current) == current + 1

\* frames_processed += 1: one is added to the value read before
incremented(tmp, current) == tmp + 1

ThreadFrames ==
    {f \in Frames : /\ f.fault = "none"
                    /\ f.pose_landmarks
                    /\ f.predict \in {"Open Palm", "raise"}}

ThreadAnalyzeRequests ==
    {r \in AnalyzeRequests : /\ Names(r)
                             /\ r.session_id.repr = "str"
                             /\ r.image_data = "valid"
                             /\ r.frame \in ThreadFrames}

ThreadStopRequests ==
    {r \in StopRequests : Names(r) /\ r.session_id.repr = "str"}

ThreadsInit ==
    /\ \E detections \in
              {<<>>, <<[class |-> "Open Palm",
                       confidence |-> CHOOSE c \in Confidences : TRUE]>>} :
          sessions =
              put_session(EmptyDict, [repr |-> "str", val |-> 0],
                          [start_time |-> 0,
                           frames_processed |-> Len(detections),
                           detections |-> detections])
    /\ detector_model = "loaded"
    /\ now = 0
    /\ last = Response("start", 200,
                  [session_id |-> [repr |-> "str", val |-> 0],
                   message |-> "Session started successfully"])
    /\ holistic_results = NobodyResults
    /\ extracted = NotExtracted
    /\ threads = NoThreads
    /\ orphans = EmptyDict

\* what the handlers' accesses of the sessions dict leave alone
detector_vars == <<detector_model, now, last, holistic_results, extracted>>

\* thread t ends its handler with the response
Finish(t, response, updated) ==
    threads' = [threads EXCEPT ![t].pc = "done",
                               ![t].updated = updated,
                               ![t].response = response]

Goto(t, pc) == threads' = [threads EXCEPT ![t].pc = pc]

\* analyze_frame lines 34-74: validation, the lookup of the session and
\* detector.process_frame
AnalyzeCheck(t, r) ==
    /\ threads[t].pc = "idle"
    /\ LET session_id == lookup(sessions, r.session_id)
       IN  IF session_id \notin DOMAIN sessions
           THEN threads' =
                    [threads EXCEPT ![t].pc = "done",
                                    ![t].op = "analyze",
                                    ![t].key = session_id,
                                    ![t].response = frame_session_not_found]
           ELSE threads' =
                    [threads EXCEPT ![t].pc = "a_guard",
                                    ![t].op = "analyze",
                                    ![t].key = session_id,
                                    ![t].prediction =
                                        process_frame(detector_model,
                                                      r.frame)]
    /\ UNCHANGED <<sessions, orphans>>
    /\ UNCHANGED detector_vars

\* line 77: if session_id in sessions; without the session lines 82-88
\* answer all the same
AnalyzeGuard(t) ==
    /\ threads[t].pc = "a_guard"
    /\ IF threads[t].key \in DOMAIN sessions
       THEN Goto(t, "a_append")
       ELSE Finish(t, Response("analyze", 200,
                        [processed_image |-> "data:image/jpeg;base64",
                         prediction |-> threads[t].prediction]), FALSE)
    /\ UNCHANGED <<sessions, orphans>>
    /\ UNCHANGED detector_vars

\* line 78: sessions[session_id]['detections'].append(prediction)
AnalyzeAppend(t) ==
    /\ threads[t].pc = "a_append"
    /\ LET key == threads[t].key
       IN  IF key \notin DOMAIN sessions
           THEN /\ Finish(t, frame_error("Error processing frame"), FALSE)
                /\ UNCHANGED sessions
           ELSE /\ Goto(t, "a_read")
                /\ sessions' =
                       put_session(sessions, key,
                           [sessions[key] EXCEPT !.detections =
                               Append(@, threads[t].prediction)])
    /\ UNCHANGED orphans
    /\ UNCHANGED detector_vars

\* line 79, first half: sessions[session_id]['frames_processed'] is read
AnalyzeRead(t) ==
    /\ threads[t].pc = "a_read"
    /\ LET key == threads[t].key
       IN  IF key \notin DOMAIN sessions
           THEN Finish(t, frame_error("Error processing frame"), FALSE)
           ELSE threads' =
                    [threads EXCEPT ![t].pc = "a_write",
                                    ![t].tmp =
                                        sessions[key].frames_processed]
    /\ UNCHANGED <<sessions, orphans>>
    /\ UNCHANGED detector_vars

\* line 79, second half: the sum is stored into the session object; then
\* lines 82-88 answer
AnalyzeWrite(t) ==
    /\ threads[t].pc = "a_write"
    /\ LET key == threads[t].key
           data == session_object(sessions, orphans, key)
           written ==
               write_object(sessions, orphans, key,
                   [data EXCEPT !.frames_processed =
                       incremented(threads[t].tmp, @)])
       IN  /\ sessions' = written.sessions
           /\ orphans' = written.orphans
    /\ Finish(t, Response("analyze", 200,
                     [processed_image |-> "data:image/jpeg;base64",
                      prediction |-> threads[t].prediction]), TRUE)
    /\ UNCHANGED detector_vars

\* stop_session lines 110-140: validation and the lookup of the session
StopCheck(t, r) ==
    /\ threads[t].pc = "idle"
    /\ LET session_id == lookup(sessions, r.session_id)
       IN  IF session_id \notin DOMAIN sessions
           THEN threads' =
                    [threads EXCEPT ![t].pc = "done",
                                    ![t].op = "stop",
                                    ![t].key = session_id,
                                    ![t].response =
                                        session_not_found_report(session_id)]
           ELSE threads' =
                    [threads EXCEPT ![t].pc = "s_total",
                                    ![t].op = "stop",
                                    ![t].key = session_id]
    /\ UNCHANGED <<sessions, orphans>>
    /\ UNCHANGED detector_vars

\* lines 142-148: session_data = sessions[session_id] (KeyError when
\* another stop-session has removed it) and total_frames
StopTotal(t) ==
    /\ threads[t].pc = "s_total"
    /\ LET key == threads[t].key
       IN  IF key \notin DOMAIN sessions
           THEN Finish(t, Response("stop", 500, [error |-> "exception"]),
                       FALSE)
           ELSE threads' =
                    [threads EXCEPT ![t].pc = "s_iterate",
                                    ![t].total_frames =
                                        sessions[key].frames_processed]
    /\ UNCHANGED <<sessions, orphans>>
    /\ UNCHANGED detector_vars

\* lines 150-155: the detections of session_data are iterated over
\* (TypeError on a None among them)
StopIterate(t) ==
    /\ threads[t].pc = "s_iterate"
    /\ LET data == session_object(sessions, orphans, threads[t].key)
       IN  IF threads[t].total_frames > 0
           THEN IF HasNone(data.detections)
                THEN Finish(t, Response("stop", 500,
                                 [error |-> "exception"]), FALSE)
                ELSE threads' =
                         [threads EXCEPT ![t].pc = "s_del",
                                         ![t].detections = data.detections]
           ELSE Goto(t, "s_del")
    /\ UNCHANGED <<sessions, orphans>>
    /\ UNCHANGED detector_vars

\* line 194: del sessions[session_id] (KeyError when it is gone), then the
\* report computed from total_frames and the detections iterated over
StopDel(t) ==
    /\ threads[t].pc = "s_del"
    /\ LET key == threads[t].key
       IN  IF key \notin DOMAIN sessions
           THEN /\ Finish(t, Response("stop", 500,
                                [error |-> "exception"]), FALSE)
                /\ UNCHANGED <<sessions, orphans>>
           ELSE /\ Finish(t,
                      session_report(
                          put_session(EmptyDict, key,
                              [start_time |-> sessions[key].start_time,
                               frames_processed |-> threads[t].total_frames,
                               detections |-> threads[t].detections]),
                          key, now),
                      FALSE)
                /\ sessions' = del_session(sessions, key)
                /\ orphans' = put_session(orphans, key, sessions[key])
    /\ UNCHANGED detector_vars

ThreadsNext ==
    \/ \E t \in Threads, r \in ThreadAnalyzeRequests : AnalyzeCheck(t, r)
    \/ \E t \in Threads : AnalyzeGuard(t)
    \/ \E t \in Threads : AnalyzeAppend(t)
    \/ \E t \in Threads : AnalyzeRead(t)
    \/ \E t \in Threads : AnalyzeWrite(t)
    \/ \E t \in Threads, r \in ThreadStopRequests : StopCheck(t, r)
    \/ \E t \in Threads : StopTotal(t)
    \/ \E t \in Threads : StopIterate(t)
    \/ \E t \in Threads : StopDel(t)

SpecThreads == ThreadsInit /\ [][ThreadsNext]_vars

----------------------------------------------------------------------------
(* Properties *)

\* an analyze-frame request whose frame reaches the session update: the
\* session is stored, the image decodes and process_frame returns
Processed(r) ==
    /\ Names(r)
    /\ KeyOf(r) \in DOMAIN sessions
    /\ r.image_data = "valid"
    /\ r.frame.fault # "process"

\* the response is the SessionReport of a stored session
IsReport(response) ==
    /\ response.op = "stop"
    /\ response.status = 200
    /\ "error" \notin DOMAIN response.body
    /\ "allowed_gestures" \in DOMAIN response.body

\* C1: the detections of every stored session hold only successful
\* predictions; a frame without prediction leaves no entry, in particular
\* no None entry.
C1_OnlyPredictionsRecorded ==
    \A k \in DOMAIN sessions :
        \A i \in 1 .. Len(sessions[k].detections) :
            sessions[k].detections[i] # None

\* C2: stop-session for a session id that is in the store answers with the
\* session's report under a successful status and removes the session,
\* whatever frames were analysed before.
C2_StopStoredSessionReports ==
    [][\A r \in StopRequests :
          (Names(r) /\ KeyOf(r) \in DOMAIN sessions /\ StopSession(r))
          => (IsReport(last') /\ KeyOf(r) \notin DOMAIN sessions')]_vars

\* C3: in every reachable state, an analyze-frame on a stored session
\* whose image decodes and is processed adds exactly one to that session's
\* frames_processed, with or without a person in the frame, with or
\* without a prediction.
C3_EveryProcessedFrameCounted ==
    \A r \in AnalyzeRequests :
        Processed(r) =>
            LET after == AnalyzeOutcome(r).sessions
            IN  /\ KeyOf(r) \in DOMAIN after
                /\ after[KeyOf(r)].frames_processed =
                       sessions[KeyOf(r)].frames_processed + 1

\* C3 witness: a frame without prediction was answered successfully and
\* stands counted in a stored session
C3_Witness ==
    /\ last.op = "analyze"
    /\ last.status = 200
    /\ "error" \notin DOMAIN last.body
    /\ last.body.prediction = None
    /\ \E k \in DOMAIN sessions :
          /\ sessions[k].frames_processed >= 1
          /\ sessions[k].detections[Len(sessions[k].detections)] = None

C5_RemovedOnceAtStop ==
    /\ \A r \in StopRequests :
          LET out == StopOutcome(r)
          IN  /\ \A k \in (DOMAIN sessions) \ (DOMAIN out.sessions) :
                    /\ IsReport(out.response)
                    /\ out.response.body.session_id = k
                    /\ Names(r) /\ KeyOf(r) = k
              /\ (Names(r) /\ KeyOf(r) \in DOMAIN sessions
                      /\ IsReport(out.response))
                    => KeyOf(r) \notin DOMAIN out.sessions
              /\ (Names(r) /\ KeyOf(r) \notin DOMAIN sessions)
                    => /\ ~IsReport(out.response)
                       /\ out.response.status = 200
                       /\ out.response.body.error = "Session ID not found"
                       /\ out.sessions = sessions
    /\ \A r \in AnalyzeRequests :
          LET out == AnalyzeOutcome(r)
          IN  /\ DOMAIN out.sessions = DOMAIN sessions
              /\ (Names(r) /\ r.image_data # "missing"
                      /\ KeyOf(r) \notin DOMAIN sessions)
                    => /\ out.response = frame_error(
                                             "Session not found or expired")
                       /\ out.sessions = sessions

\* C5 witness: stop-session has answered with the report of a session that
\* recorded frames, and the session is gone from the store
C5_Witness ==
    /\ IsReport(last)
    /\ last.body.frames_processed > 0
    /\ last.body.session_id \notin DOMAIN sessions

\* C6: stop-session with a session id that is not in the store answers,
\* with a non-error status, a report with duration, frames_processed and
\* overall_score 0, empty gesture_percentages and an error string, and
\* leaves the store as it is.
C6_StopUnknownSession ==
    \A r \in StopRequests :
        (Names(r) /\ KeyOf(r) \notin DOMAIN sessions) =>
            LET out == StopOutcome(r)
                body == out.response.body
            IN  /\ out.response.status = 200
                /\ {"duration", "frames_processed", "overall_score",
                    "gesture_percentages", "error"} \subseteq DOMAIN body
                /\ body.duration = RInt(0)
                /\ body.frames_processed = 0
                /\ body.overall_score = RInt(0)
                /\ DOMAIN body.gesture_percentages = {}
                /\ body.error # ""
                /\ out.sessions = sessions

\* C6 witness: the zeroed report was answered while a session with frames
\* is stored
C6_Witness ==
    /\ last.op = "stop"
    /\ last.status = 200
    /\ {"duration", "error"} \subseteq DOMAIN last.body
    /\ \E k \in DOMAIN sessions : sessions[k].frames_processed > 0

\* C7: analyze-frame with a session id that is not in the store answers,
\* with a non-error status, an empty processed_image, a null prediction
\* and an error string; it creates no session and changes no stored one.
C7_AnalyzeUnknownSession ==
    \A r \in AnalyzeRequests :
        (Names(r) /\ r.image_data # "missing"
             /\ KeyOf(r) \notin DOMAIN sessions) =>
            LET out == AnalyzeOutcome(r)
                body == out.response.body
            IN  /\ out.response.status = 200
                /\ DOMAIN body = {"processed_image", "prediction", "error"}
                /\ body.processed_image = ""
                /\ body.prediction = None
                /\ body.error # ""
                /\ out.sessions = sessions

\* C7 witness: the session-not-found answer was given while another
\* session with frames is stored
C7_Witness ==
    /\ last.op = "analyze"
    /\ last.status = 200
    /\ "error" \in DOMAIN last.body
    /\ last.body.error = "Session not found or expired"
    /\ \E k \in DOMAIN sessions : sessions[k].frames_processed > 0

\* the number of detections of class g among the detections
CountOf(detections, g) ==
    Cardinality({i \in 1 .. Len(detections) :
                    detections[i] # None /\ detections[i].class = g})

\* C8: stopping a stored session with frames_processed = N > 0 reports
\* every label with k > 0 detections with gesture_count k and
\* gesture_percentage k / N * 100, N counting the frames without
\* prediction too, and reports no label without detections.
C8_PercentagesOverAllFrames ==
    [][\A r \in StopRequests :
          (/\ Names(r)
           /\ KeyOf(r) \in DOMAIN sessions
           /\ sessions[KeyOf(r)].frames_processed > 0
           /\ StopSession(r))
          => /\ IsReport(last')
             /\ LET session_data == sessions[KeyOf(r)]
                    N == session_data.frames_processed
                    reported == last'.body.gesture_percentages
                IN  /\ DOMAIN reported \subseteq gesture_classes
                    /\ \A g \in gesture_classes :
                          LET k == CountOf(session_data.detections, g)
                          IN  IF k > 0
                              THEN /\ g \in DOMAIN reported
                                   /\ reported[g].gesture_count = k
                                   /\ reported[g].gesture_percentage =
                                          Frac(k * 100, N)
                              ELSE g \notin DOMAIN reported]_vars

RECURSIVE SumCounts(_, _)
SumCounts(entries, names) ==
    IF names = {} THEN 0
    ELSE LET name == CHOOSE x \in names : TRUE
         IN  entries[name].gesture_count + SumCounts(entries, names \ {name})

Clamp(x) ==
    IF RLess(x, RInt(0)) THEN RInt(0)
    ELSE IF RLess(RInt(100), x) THEN RInt(100) ELSE x

\* the sum of the reported percentages of the labels in names
ReportedSum(body, names) ==
    SumPercentages(body.gesture_percentages,
                   names \cap DOMAIN body.gesture_percentages)

\* C10: every report has overall_score =
\* clamp(0, 100, 50 + (allowed sum - disallowed sum) / 2) when
\* frames_processed > 0 and 0 when frames_processed = 0; so the score is
\* within 0..100, it is 100 for allowed 100 / disallowed 0 and 0 for
\* allowed 0 / disallowed 100.
C10_OverallScore ==
    (last.op = "stop" /\ "overall_score" \in DOMAIN last.body) =>
        LET body == last.body
            allowed == ReportedSum(body, AllowedNames)
            disallowed == ReportedSum(body, DisallowedNames)
        IN  /\ body.frames_processed > 0 =>
                  body.overall_score =
                      Clamp(RAdd(RInt(50),
                                 RDivInt(RSub(allowed, disallowed), 2)))
            /\ body.frames_processed = 0 => body.overall_score = RInt(0)
            /\ RLeq(RInt(0), body.overall_score)
            /\ RLeq(body.overall_score, RInt(100))
            /\ (body.frames_processed > 0 /\ allowed = RInt(100)
                    /\ disallowed = RInt(0))
                  => body.overall_score = RInt(100)
            /\ (body.frames_processed > 0 /\ allowed = RInt(0)
                    /\ disallowed = RInt(100))
                  => body.overall_score = RInt(0)

\* C10 witness: a report with allowed and disallowed gestures whose score
\* lies strictly between 50 and 100
C10_Witness ==
    /\ IsReport(last)
    /\ last.body.frames_processed > 0
    /\ RLess(RInt(0), ReportedSum(last.body, DisallowedNames))
    /\ RLess(RInt(50), last.body.overall_score)
    /\ RLess(last.body.overall_score, RInt(100))

\* a line of the feedback text
HasLine(feedback, line) ==
    \E i \in 1 .. Len(feedback) : feedback[i] = line

\* the session holds N > 0 detections and all are "Open Palm"
AllOpenPalm(session_data) ==
    /\ Len(session_data.detections) > 0
    /\ \A i \in 1 .. Len(session_data.detections) :
          /\ session_data.detections[i] # None
          /\ session_data.detections[i].class = "Open Palm"

\* C11: a session started and fed N > 0 frames that were all classified
\* "Open Palm" is reported at stop-session with frames_processed = N,
\* Open Palm at 100 percent, the positive Open Palm line in the feedback
\* and overall_score 100.
C11_AllOpenPalmScores100 ==
    \A r \in StopRequests :
        (Names(r) /\ KeyOf(r) \in DOMAIN sessions
             /\ AllOpenPalm(sessions[KeyOf(r)])) =>
            LET response == StopOutcome(r).response
                body == response.body
                N == Len(sessions[KeyOf(r)].detections)
            IN  /\ IsReport(response)
                /\ body.frames_processed = N
                /\ "Open Palm" \in DOMAIN body.gesture_percentages
                /\ body.gesture_percentages["Open Palm"].gesture_percentage
                       = RInt(100)
                /\ HasLine(body.feedback,
                           "+ open palm gestures convey openness")
                /\ body.overall_score = RInt(100)

\* C11 witness: the report of a session of two or more frames, all of
\* them Open Palm
C11_Witness ==
    /\ IsReport(last)
    /\ last.body.frames_processed >= 2
    /\ DOMAIN last.body.gesture_percentages = {"Open Palm"}
    /\ last.body.gesture_percentages["Open Palm"].gesture_count
           = last.body.frames_processed
    /\ last.body.overall_score = RInt(100)

\* C12: a session stopped with no analyze-frame since its start is
\* reported with frames_processed 0, empty gesture_percentages and
\* overall_score 0; nothing is divided by zero.
C12_EmptySessionReport ==
    \A r \in StopRequests :
        (Names(r) /\ KeyOf(r) \in DOMAIN sessions
             /\ sessions[KeyOf(r)].frames_processed = 0
             /\ sessions[KeyOf(r)].detections = <<>>) =>
            LET response == StopOutcome(r).response
            IN  /\ IsReport(response)
                /\ response.body.frames_processed = 0
                /\ DOMAIN response.body.gesture_percentages = {}
                /\ response.body.overall_score = RInt(0)

\* C12 witness: the report of a session without frames, the session gone
C12_Witness ==
    /\ IsReport(last)
    /\ last.body.frames_processed = 0
    /\ last.body.session_id \notin DOMAIN sessions

\* C13: every report of a stored session has the allowed bucket with
\* exactly Open Palm, Thumbs Up, Pointing and the disallowed bucket with
\* exactly Crossed Arms, Victorious; a member never observed has count 0
\* and percentage 0, an observed member the entry of gesture_percentages.
C13_BucketsFullyPopulated ==
    IsReport(last) =>
        LET body == last.body
            Member(bucket, name) ==
                IF name \in DOMAIN body.gesture_percentages
                THEN bucket[name] = body.gesture_percentages[name]
                ELSE /\ bucket[name].gesture_name = name
                     /\ bucket[name].gesture_count = 0
                     /\ bucket[name].gesture_percentage = RInt(0)
        IN  /\ DOMAIN body.allowed_gestures =
                   {"Open Palm", "Thumbs Up", "Pointing"}
            /\ DOMAIN body.disallowed_gestures =
                   {"Crossed Arms", "Victorious"}
            /\ \A name \in DOMAIN body.allowed_gestures :
                  Member(body.allowed_gestures, name)
            /\ \A name \in DOMAIN body.disallowed_gestures :
                  Member(body.disallowed_gestures, name)

\* C13 witness: a report in which one allowed and one disallowed label
\* were observed and the others were not
C13_Witness ==
    /\ IsReport(last)
    /\ DOMAIN last.body.gesture_percentages = {"Thumbs Up", "Victorious"}
    /\ last.body.allowed_gestures["Open Palm"].gesture_count = 0
    /\ last.body.allowed_gestures["Thumbs Up"].gesture_count > 0

\* the reported percentage of a label, 0 for a label that is not reported
ReportedPercentage(body, name) ==
    IF name \in DOMAIN body.gesture_percentages
    THEN body.gesture_percentages[name].gesture_percentage
    ELSE RInt(0)

\* C14: the feedback holds the positive Open Palm line iff Open Palm > 20
\* percent and the corrective one otherwise; the Thumbs Up line iff
\* Thumbs Up > 10; the Pointing line iff Pointing > 10; the corrective
\* Crossed Arms line iff Crossed Arms > 15 and the open-posture line
\* otherwise; the Victorious line iff Victorious > 15; and always the four
\* general recommendations.  A percentage equal to its threshold does not
\* exceed it.
C14_FeedbackThresholds ==
    IsReport(last) =>
        LET body == last.body
            Over(name, percent) ==
                RLess(RInt(percent), ReportedPercentage(body, name))
            Has(line) == HasLine(body.feedback, line)
        IN  /\ Has("+ open palm gestures convey openness")
                   <=> Over("Open Palm", 20)
            /\ Has("- use more open palm gestures")
                   <=> ~Over("Open Palm", 20)
            /\ Has("+ thumbs up reinforce key points")
                   <=> Over("Thumbs Up", 10)
            /\ Has("+ pointing gestures direct attention")
                   <=> Over("Pointing", 10)
            /\ Has("- reduce crossed arms posture")
                   <=> Over("Crossed Arms", 15)
            /\ Has("+ maintained an open posture")
                   <=> ~Over("Crossed Arms", 15)
            /\ Has("- limit victory signs") <=> Over("Victorious", 15)
            /\ Has("* Maintain balanced posture and avoid slouching")
            /\ Has("* Use purposeful hand movements to emphasize points")
            /\ Has("* Keep steady eye contact with your audience")
            /\ Has("* Vary your gestures to maintain audience engagement")

\* C14 witness: a report with Open Palm at 20, Thumbs Up at 10 and Crossed
\* Arms at 15 percent exactly, none of them counted as exceeding
C14_Witness ==
    /\ IsReport(last)
    /\ ReportedPercentage(last.body, "Open Palm") = RInt(20)
    /\ ReportedPercentage(last.body, "Thumbs Up") = RInt(10)
    /\ ReportedPercentage(last.body, "Crossed Arms") = RInt(15)
    /\ HasLine(last.body.feedback, "- use more open palm gestures")
    /\ ~HasLine(last.body.feedback, "+ thumbs up reinforce key points")
    /\ HasLine(last.body.feedback, "+ maintained an open posture")

\* the classifier gives no label for the frame: no model was loaded, or
\* predict raises, or the predicted label is not among the model's classes
ClassifierFails(frame) ==
    \/ detector_model = "None"
    \/ frame.pose_landmarks /\ frame.predict = "raise"
    \/ frame.pose_landmarks /\ frame.predict \notin classes_

\* C15: with the classifier unavailable or raising, analyze-frame on a
\* stored session still answers with a successful status, prediction null
\* and the annotated frame, and the session stays in the store for the
\* frames to come.
C15_ClassifierFailureDegrades ==
    \A r \in AnalyzeRequests :
        (Processed(r) /\ r.frame.fault = "none" /\ ClassifierFails(r.frame))
        => LET out == AnalyzeOutcome(r)
           IN  /\ out.response.status = 200
               /\ DOMAIN out.response.body = {"processed_image", "prediction"}
               /\ out.response.body.prediction = None
               /\ out.response.body.processed_image # ""
               /\ KeyOf(r) \in DOMAIN out.sessions

\* C15 witness: without a loaded model a second frame of a session was
\* answered successfully with prediction null
C15_Witness ==
    /\ detector_model = "None"
    /\ last.op = "analyze"
    /\ last.status = 200
    /\ "error" \notin DOMAIN last.body
    /\ last.body.prediction = None
    /\ \E k \in DOMAIN sessions : sessions[k].frames_processed >= 2

\* C16: with pose landmarks present the feature vector has exactly 2004
\* entries whether or not a face was detected: the pose landmarks'
\* x, y, z, visibility in index order, then the face landmarks' x, y, z, 0;
\* without a face the face slice is 1872 zeros; without pose landmarks no
\* vector is built (None).
C16_FeatureVectorLayout ==
    (extracted # NotExtracted) =>
        LET pose == holistic_results.pose_landmarks
            face == holistic_results.face_landmarks
        IN  IF pose = None
            THEN extracted = None
            ELSE /\ extracted # None
                 /\ DOMAIN extracted = 1 .. 2004
                 /\ \A i \in 1 .. 33 :
                        /\ extracted[4 * (i - 1) + 1] = pose[i].x
                        /\ extracted[4 * (i - 1) + 2] = pose[i].y
                        /\ extracted[4 * (i - 1) + 3] = pose[i].z
                        /\ extracted[4 * (i - 1) + 4] = pose[i].visibility
                 /\ IF face = None
                    THEN /\ \A k \in 133 .. 2004 : extracted[k] = 0
                         /\ Cardinality(133 .. 2004) = 1872
                    ELSE \A j \in 1 .. 468 :
                            /\ extracted[132 + 4 * (j - 1) + 1] = face[j].x
                            /\ extracted[132 + 4 * (j - 1) + 2] = face[j].y
                            /\ extracted[132 + 4 * (j - 1) + 3] = face[j].z
                            /\ extracted[132 + 4 * (j - 1) + 4] = 0

\* a vector was built from pose landmarks without a face
C16_Witness ==
    /\ extracted # NotExtracted
    /\ extracted # None
    /\ holistic_results.pose_landmarks # None
    /\ holistic_results.face_landmarks = None

\* C17: analyze-frame for a stored session with an image payload that
\* cannot be decoded to an image, however it is malformed, answers with an
\* error status different from the successful status of session-not-found
\* and per-frame processing errors.
C17_MalformedImageDistinctStatus ==
    \A r \in AnalyzeRequests :
        (/\ Names(r)
         /\ KeyOf(r) \in DOMAIN sessions
         /\ r.image_data \in {"no_comma", "bad_base64", "not_image"})
        => AnalyzeOutcome(r).response.status
               # frame_session_not_found.status

\* the analyze-frame threads that have stored frames_processed of the
\* session object of key k and answered
Updaters(k) ==
    {t \in Threads : /\ threads[t].pc = "done"
                     /\ threads[t].op = "analyze"
                     /\ threads[t].updated
                     /\ threads[t].key = k}

\* C18: concurrent analyze-frame calls for one session can lose an update
\* of frames_processed.  Every call stores one more than the value it read,
\* whatever was stored since: frames_processed is always the value the last
\* of the completed calls stored, and (C18_Witness) two calls that both
\* completed their update leave it grown by one only.
C18_LostUpdate ==
    \A k \in (DOMAIN sessions) \cup (DOMAIN orphans) :
        (Updaters(k) # {}) =>
            \E t \in Updaters(k) :
                session_object(sessions, orphans, k).frames_processed
                    = threads[t].tmp + 1

\* two calls have appended their detection and completed their update, and
\* frames_processed is one more than what both had read
C18_Witness ==
    \E k \in DOMAIN sessions :
        \E t1 \in Updaters(k), t2 \in Updaters(k) :
            /\ t1 # t2
            /\ threads[t1].tmp = threads[t2].tmp
            /\ sessions[k].frames_processed = threads[t1].tmp + 1
            /\ Len(sessions[k].detections) >= threads[t1].tmp + 2

\* the stop-session threads that have answered with the report of key k
Reporters(k) ==
    {t \in Threads : /\ threads[t].pc = "done"
                     /\ threads[t].op = "stop"
                     /\ threads[t].key = k
                     /\ IsReport(threads[t].response)}

\* C19: a stop-session racing an analyze-frame for the same session.  Once
\* stop-session has answered with the report the session is out of the
\* store and stays out, so what an analyze-frame still in flight appends or
\* counts afterwards reaches only the removed object; (C19_Witness) the
\* frame of a call that answered successfully is then missing from, or
\* inconsistently counted in, the report.
C19_StopRacesAnalyze ==
    \A k \in (DOMAIN sessions) \cup (DOMAIN orphans) :
        (Reporters(k) # {}) =>
            /\ k \notin DOMAIN sessions
            /\ k \in DOMAIN orphans
            /\ \A s \in Reporters(k) :
                   threads[s].response.body.frames_processed
                       = threads[s].total_frames

\* analyze-frame answered successfully after updating the session, and the
\* report of stop-session has fewer frames than the removed session object
\* holds detections
C19_Witness ==
    \E k \in DOMAIN orphans :
        \E s \in Reporters(k), a \in Updaters(k) :
            /\ threads[a].response.status = 200
            /\ "error" \notin DOMAIN threads[a].response.body
            /\ threads[s].response.body.frames_processed
                   < Len(orphans[k].detections)
            /\ threads[s].response.body.frames_processed
                   < orphans[k].frames_processed

\* C20: start-session calls made within the same clock second receive the
\* same session_id, and a call whose id is already stored overwrites that
\* session without any sign in its response: frames_processed is 0 and the
\* detections are empty again, so the frames analysed before are lost.
C20_SameSecondStartOverwrites ==
    \A start_time \in {now, now + 1} :
        LET out == start_session(sessions, now, start_time)
            session_id == out.response.body.session_id
        IN  /\ \A t \in 0 .. MaxTime :
                   (t \div TicksPerSecond = now \div TicksPerSecond) =>
                       start_session(sessions, t, t).response.body.session_id
                           = session_id
            /\ out.response.status = 200
            /\ DOMAIN out.response.body = {"session_id", "message"}
            /\ out.sessions[session_id].frames_processed = 0
            /\ out.sessions[session_id].detections = <<>>
            /\ \A k \in (DOMAIN sessions) \ {session_id} :
                   out.sessions[k] = sessions[k]

\* a session started earlier in the current clock second holds analysed
\* frames, and the clock has moved on within that second
C20_Witness ==
    \E k \in DOMAIN sessions :
        /\ k = [repr |-> "str", val |-> now \div TicksPerSecond]
        /\ sessions[k].frames_processed > 0
        /\ Len(sessions[k].detections) > 0
        /\ sessions[k].start_time < now
        /\ sessions[k].start_time \div TicksPerSecond
               = now \div TicksPerSecond

\* the response of analyze-frame is an error response
IsErrorResponse(response) ==
    response.status # 200 \/ "error" \in DOMAIN response.body

\* C21: an analyze-frame call that answers with an error response (missing
\* session_id or image_data, unknown session, undecodable image, or an
\* exception while decoding, processing or encoding the frame) leaves
\* frames_processed and detections of every stored session unchanged.
C21_ErrorLeavesSessionsUnchanged ==
    \A r \in AnalyzeRequests :
        LET out == AnalyzeOutcome(r)
        IN  IsErrorResponse(out.response) =>
                \A k \in DOMAIN sessions :
                    /\ k \in DOMAIN out.sessions
                    /\ out.sessions[k].frames_processed
                           = sessions[k].frames_processed
                    /\ out.sessions[k].detections = sessions[k].detections

\* C22: when start-session, analyze-frame and stop-session calls run one at
\* a time, every stored session has frames_processed equal to the length
\* of its detections in every reachable state.
C22_FramesEqualDetections ==
    \A k \in DOMAIN sessions :
        sessions[k].frames_processed = Len(sessions[k].detections)

\* an analyze-frame call has just updated a stored session for the second
\* time, once with a prediction and once without
C22_Witness ==
    /\ last.op = "analyze"
    /\ "error" \notin DOMAIN last.body
    /\ \E k \in DOMAIN sessions :
          /\ Len(sessions[k].detections) = 2
          /\ sessions[k].frames_processed = 2
          /\ sessions[k].detections[1] # sessions[k].detections[2]
          /\ HasNone(sessions[k].detections)

====
